---- MODULE Spec2Model ----
(***************************************************************************)
(* A model of the Squix agent (src/src/index.ts) and of the schema         *)
(* introspector with its module-level cache (src/unnamed/part_000).        *)
(*                                                                         *)
(* SQL text is a sequence of one-character strings, so that trimming,      *)
(* terminator stripping, upper-casing and word-boundary matching are       *)
(* computed character by character, as the code's string methods and       *)
(* regular expressions compute them.                                       *)
(***************************************************************************)
EXTENDS Integers, Sequences, FiniteSets, TLC

VARIABLES
    schemaCache,          \* part_000:3    let schemaCache: string | null
    dbContent,            \* the tables each database holds right now
    prisma,               \* index.ts:49   this.prisma, per agent
    dbSchema,             \* index.ts:50   this.dbSchema, per agent
    provider,             \* index.ts:51   this.provider, per agent
    defaultSystemPrompt,  \* index.ts:52   this.defaultSystemPrompt, per agent
    connectCall,          \* the connect() call of each agent
    chatCall,             \* the chat() call of each agent
    schemaCall,           \* a direct getDatabaseSchema() call of the host
    everConnected,        \* history: a connect() of the agent has succeeded
    everLoaded,           \* history: an introspection pass has succeeded
    sqlInput,             \* validator study: the parsed model response
    sqlResult,            \* validator study: what getSQLFromLLM did with it
    jsonInput,            \* parser study: the text of a model response
    jsonResult            \* parser study: what parseIntelligentJson did with it

vars == <<schemaCache, dbContent, prisma, dbSchema, provider,
          defaultSystemPrompt, connectCall, chatCall, schemaCall,
          everConnected, everLoaded, sqlInput, sqlResult,
                   jsonInput, jsonResult>>

(***************************************************************************)
(* Bounds                                                                  *)
(***************************************************************************)
\* longest run of padding characters put before and after a word
MaxPad == 2

\* longest commentary put before and after a fenced block
MaxNote == 2

(***************************************************************************)
(* Characters                                                              *)
(***************************************************************************)
LowerLetters ==
    <<"a","b","c","d","e","f","g","h","i","j","k","l","m",
      "n","o","p","q","r","s","t","u","v","w","x","y","z">>

UpperLetters ==
    <<"A","B","C","D","E","F","G","H","I","J","K","L","M",
      "N","O","P","Q","R","S","T","U","V","W","X","Y","Z">>

Digits == {"0","1","2","3","4","5","6","7","8","9"}

\* the characters \s matches and String.prototype.trim removes
IsSpace(c) == c \in {" ", "\t", "\n", "\r"}

\* the characters \w matches; \b is a boundary between \w and not \w
IsWordChar(c) ==
    \/ \E i \in 1..26 : c = LowerLetters[i] \/ c = UpperLetters[i]
    \/ c \in Digits
    \/ c = "_"

\* String.prototype.toUpperCase on one character
UpperChar(c) ==
    IF \E i \in 1..26 : c = LowerLetters[i]
    THEN UpperLetters[CHOOSE i \in 1..26 : c = LowerLetters[i]]
    ELSE c

toUpperCase(s) == [i \in 1..Len(s) |-> UpperChar(s[i])]

\* String.prototype.trim
trim(s) ==
    IF \A i \in 1..Len(s) : IsSpace(s[i])
    THEN <<>>
    ELSE LET first == CHOOSE i \in 1..Len(s) :
                        /\ ~IsSpace(s[i])
                        /\ \A j \in 1..(i-1) : IsSpace(s[j])
             last  == CHOOSE i \in 1..Len(s) :
                        /\ ~IsSpace(s[i])
                        /\ \A j \in (i+1)..Len(s) : IsSpace(s[j])
         IN  SubSeq(s, first, last)

\* s[i..] matches ;+\s*$ : one or more ';', then whitespace, then the end
MatchesTerminatorTail(s, i) ==
    /\ i \in 1..Len(s)
    /\ s[i] = ";"
    /\ \E k \in i..Len(s) :
         /\ \A j \in i..k : s[j] = ";"
         /\ \A j \in (k+1)..Len(s) : IsSpace(s[j])

\* .replace(/;+\s*$/g, ""): the leftmost match is removed; it reaches the
\* end of the text, so the global flag finds no second match
StripTerminators(s) ==
    IF \E i \in 1..Len(s) : MatchesTerminatorTail(s, i)
    THEN LET first == CHOOSE i \in 1..Len(s) :
                        /\ MatchesTerminatorTail(s, i)
                        /\ \A j \in 1..(i-1) : ~MatchesTerminatorTail(s, j)
         IN  SubSeq(s, 1, first - 1)
    ELSE s

\* cleanQuery.includes(";")
IncludesSeparator_never(s) == FALSE

IncludesSeparator(s) == \E i \in 1..Len(s) : s[i] = ";"

(***************************************************************************)
(* The keyword denylist                                                    *)
(***************************************************************************)
dangerousKeywords ==
    { <<"D","R","O","P">>,
      <<"D","E","L","E","T","E">>,
      <<"T","R","U","N","C","A","T","E">>,
      <<"A","L","T","E","R">>,
      <<"C","R","E","A","T","E">>,
      <<"I","N","S","E","R","T">>,
      <<"U","P","D","A","T","E">>,
      <<"G","R","A","N","T">>,
      <<"R","E","V","O","K","E">>,
      <<"E","X","E","C">> }

\* the text s holds kw at position i
OccursAt(s, kw, i) ==
    /\ i >= 1
    /\ i + Len(kw) - 1 <= Len(s)
    /\ \A j \in 1..Len(kw) : s[i + j - 1] = kw[j]

\* new RegExp(`\\b${keyword}\\b`).test(s): the keyword's first and last
\* characters are word characters, so each \b asks for the text's edge or
\* a character that is not a word character
RegexTest_substring(s, kw) == \E i \in 1..Len(s) : OccursAt(s, kw, i)

RegexTest(s, kw) ==
    \E i \in 1..Len(s) :
        /\ OccursAt(s, kw, i)
        /\ (i = 1 \/ ~IsWordChar(s[i-1]))
        /\ (i + Len(kw) - 1 = Len(s) \/ ~IsWordChar(s[i + Len(kw)]))

(***************************************************************************)
(* getSQLFromLLM, after the model call: extraction and validation          *)
(***************************************************************************)
\* what parseIntelligentJson made of the SQL model's response text: an
\* error, or an object whose "query" key is absent, not a string, or a string
ParseFailed == [kind |-> "fail", qtype |-> "none", query |-> <<>>]

ParsedQuery(qtype, q) == [kind |-> "obj", qtype |-> qtype, query |-> q]

\* !query || typeof query !== "string"
QueryKeyInvalid(parsed) ==
    \/ parsed.qtype # "string"
    \/ parsed.query = <<>>

SQLFailure(detail) == [ok |-> FALSE, value |-> <<>>, err |-> detail]

SQLSuccess(q) == [ok |-> TRUE, value |-> q, err |-> "none"]

\* the loop over dangerousKeywords on upperQuery
HasDangerousKeyword(cleanQuery) ==
    \E kw \in dangerousKeywords : RegexTest(toUpperCase(cleanQuery), kw)

\* let cleanQuery = query.trim().replace(/;+\s*$/g, "")
CleanQuery(query) == StripTerminators(trim(query))

\* the try block of getSQLFromLLM; every throw inside it is caught and
\* thrown again as the generation failure
getSQLFromLLM(parsed) ==
    IF parsed.kind = "fail" THEN SQLFailure("parse")
    ELSE IF QueryKeyInvalid(parsed) THEN SQLFailure("query key")
    ELSE LET cleanQuery == CleanQuery(parsed.query)
         IN  IF IncludesSeparator(cleanQuery)
             THEN SQLFailure("multiple statements")
             ELSE IF HasDangerousKeyword(cleanQuery)
                  THEN SQLFailure("dangerous keyword")
                  ELSE SQLSuccess(cleanQuery)

(***************************************************************************)
(* Candidate statements: a word between two runs of padding                *)
(***************************************************************************)
PadChars == {" ", ";", "_", "1", "x"}

Pads == UNION { [1..k -> PadChars] : k \in 0..MaxPad }

Words ==
    { <<>>,
      <<"a","b">>,
      <<"D","R","O","P">>,
      <<"d","r","o","p">>,
      <<"D","r","o","P">>,
      <<"U","p","d","a","t","e">>,
      <<"e","x","e","c">> }

Candidates == { p \o w \o q : p \in Pads, w \in Words, q \in Pads }

SQLInputs ==
    {ParseFailed, ParsedQuery("absent", <<>>), ParsedQuery("number", <<>>)}
        \cup { ParsedQuery("string", q) : q \in Candidates }

NotRun == [ok |-> FALSE, value |-> <<>>, err |-> "not run"]

(***************************************************************************)
(* parseIntelligentJson: fence stripping, brace slicing, JSON.parse        *)
(***************************************************************************)
\* the characters ^ and $ take for a line break under the m flag
IsLineTerminator(c) == c \in {"\n", "\r"}

\* the character U+0060, of which three make a fence
Backtick == "U+0060"

Fence == <<Backtick, Backtick, Backtick>>

LanguageTags == { <<"j","s","o","n">>, <<"J","S","O","N">> }

\* s without its characters from..(to-1): replace(match, "")
Remove(s, from, to) == SubSeq(s, 1, from - 1) \o SubSeq(s, to, Len(s))

\* the index after the longest run of \s characters that starts at i
RECURSIVE SkipSpaces(_, _)
SkipSpaces(s, i) ==
    IF i <= Len(s) /\ IsSpace(s[i]) THEN SkipSpaces(s, i + 1) ELSE i

\* /^```(?:json|JSON)?\s*\n?/m matches at i: a fence at the start of a line
OpeningFenceAt(s, i) ==
    /\ i = 1 \/ IsLineTerminator(s[i - 1])
    /\ OccursAt(s, Fence, i)

\* the index after that match: the tag if there is one, then all white space
OpeningFenceEnd(s, i) ==
    SkipSpaces(s, IF \E t \in LanguageTags : OccursAt(s, t, i + 3)
                  THEN i + 7 ELSE i + 3)

\* cleanText.replace(/^```(?:json|JSON)?\s*\n?/m, ""): the first match only
StripOpeningFence(s) ==
    IF \E i \in 1..Len(s) : OpeningFenceAt(s, i)
    THEN LET i == CHOOSE i \in 1..Len(s) :
                    /\ OpeningFenceAt(s, i)
                    /\ \A j \in 1..(i - 1) : ~OpeningFenceAt(s, j)
         IN  Remove(s, i, OpeningFenceEnd(s, i))
    ELSE s

\* \s*$ under the m flag, from index q on: the index after the longest run
\* of white space that stops at the end of the text or before a line break;
\* 0 when there is none
ClosingTailEnd(s, q) ==
    LET ends == { e \in q..SkipSpaces(s, q) :
                    e = Len(s) + 1 \/ IsLineTerminator(s[e]) }
    IN  IF ends = {} THEN 0
        ELSE CHOOSE e \in ends : \A d \in ends : d <= e

\* where the fence of a match of /\n?```\s*$/m that starts at p stands
ClosingFenceOf(s, p) == IF s[p] = "\n" THEN p + 1 ELSE p

ClosingFenceAt(s, p) ==
    /\ OccursAt(s, Fence, ClosingFenceOf(s, p))
    /\ ClosingTailEnd(s, ClosingFenceOf(s, p) + 3) # 0

\* cleanText.replace(/\n?```\s*$/m, ""): the first match only
StripClosingFence(s) ==
    IF \E p \in 1..Len(s) : ClosingFenceAt(s, p)
    THEN LET p == CHOOSE p \in 1..Len(s) :
                    /\ ClosingFenceAt(s, p)
                    /\ \A j \in 1..(p - 1) : ~ClosingFenceAt(s, j)
         IN  Remove(s, p, ClosingTailEnd(s, ClosingFenceOf(s, p) + 3))
    ELSE s

\* String.prototype.indexOf, counting from 1: 0 stands for -1
IndexOf(s, c) ==
    IF \E i \in 1..Len(s) : s[i] = c
    THEN CHOOSE i \in 1..Len(s) :
            s[i] = c /\ \A j \in 1..(i - 1) : s[j] # c
    ELSE 0

\* String.prototype.lastIndexOf, counting from 1: 0 stands for -1
LastIndexOf_firstMatch(s, c) == IndexOf(s, c)

LastIndexOf(s, c) ==
    IF \E i \in 1..Len(s) : s[i] = c
    THEN CHOOSE i \in 1..Len(s) :
            s[i] = c /\ \A j \in (i + 1)..Len(s) : s[j] # c
    ELSE 0

\* JSON.parse, by recursive descent over objects, strings, integers and the
\* three literals; each operator gives the index after the value that
\* starts at i, or 0 when there is none
JSONLiterals ==
    { <<"t","r","u","e">>, <<"f","a","l","s","e">>, <<"n","u","l","l">> }

ParseString(s, i) ==
    IF i >= 1 /\ i <= Len(s) /\ s[i] = "\""
          /\ \E j \in (i + 1)..Len(s) : s[j] = "\""
    THEN LET j == CHOOSE j \in (i + 1)..Len(s) :
                    s[j] = "\"" /\ \A k \in (i + 1)..(j - 1) : s[k] # "\""
         IN  IF \E k \in (i + 1)..(j - 1) : s[k] \in {"\n", "\r", "\t", "\\"}
             THEN 0 ELSE j + 1
    ELSE 0

RECURSIVE SkipDigits(_, _)
SkipDigits(s, i) ==
    IF i <= Len(s) /\ s[i] \in Digits THEN SkipDigits(s, i + 1) ELSE i

ParseNumber(s, i) ==
    LET d == IF i <= Len(s) /\ s[i] = "-" THEN i + 1 ELSE i
    IN  IF d > Len(s) \/ s[d] \notin Digits THEN 0
        ELSE IF s[d] = "0" THEN d + 1
        ELSE SkipDigits(s, d)

RECURSIVE ParseValue(_, _)
RECURSIVE ParseMembers(_, _)
ParseObject(s, i) ==
    LET j == SkipSpaces(s, i + 1)
    IN  IF j <= Len(s) /\ s[j] = "}" THEN j + 1 ELSE ParseMembers(s, j)

ParseMembers(s, i) ==
    IF ParseString(s, i) = 0 THEN 0
    ELSE LET colon == SkipSpaces(s, ParseString(s, i))
         IN  IF colon > Len(s) \/ s[colon] # ":" THEN 0
             ELSE LET v == ParseValue(s, SkipSpaces(s, colon + 1))
                  IN  IF v = 0 \/ SkipSpaces(s, v) > Len(s) THEN 0
                      ELSE IF s[SkipSpaces(s, v)] = ","
                      THEN ParseMembers(s, SkipSpaces(s, SkipSpaces(s, v) + 1))
                      ELSE IF s[SkipSpaces(s, v)] = "}"
                      THEN SkipSpaces(s, v) + 1
                      ELSE 0

ParseValue(s, i) ==
    IF i > Len(s) THEN 0
    ELSE IF s[i] = "{" THEN ParseObject(s, i)
    ELSE IF s[i] = "\"" THEN ParseString(s, i)
    ELSE IF \E l \in JSONLiterals : OccursAt(s, l, i)
    THEN i + Len(CHOOSE l \in JSONLiterals : OccursAt(s, l, i))
    ELSE ParseNumber(s, i)

\* the value a JSON text denotes, written without the white space between
\* its tokens
RECURSIVE ValueFrom(_, _, _)
ValueFrom(s, i, inString) ==
    IF i > Len(s) THEN <<>>
    ELSE IF s[i] = "\"" THEN <<s[i]>> \o ValueFrom(s, i + 1, ~inString)
    ELSE IF ~inString /\ IsSpace(s[i]) THEN ValueFrom(s, i + 1, inString)
    ELSE <<s[i]>> \o ValueFrom(s, i + 1, inString)

JSONValue(s) == ValueFrom(s, 1, FALSE)

JSONFailure(detail) == [ok |-> FALSE, value |-> <<>>, err |-> detail]

JSONParse(s) ==
    LET e == ParseValue(s, SkipSpaces(s, 1))
    IN  IF e # 0 /\ SkipSpaces(s, e) = Len(s) + 1
        THEN [ok |-> TRUE, value |-> JSONValue(s), err |-> "none"]
        ELSE JSONFailure("Failed to parse cleaned JSON")

parseIntelligentJson(text) ==
    LET cleanText == trim(StripClosingFence(StripOpeningFence(trim(text))))
        firstBrace == IndexOf(cleanText, "{")
        lastBrace == LastIndexOf(cleanText, "}")
    IN  IF firstBrace = 0 \/ lastBrace = 0 \/ lastBrace < firstBrace
        THEN JSONFailure("No valid JSON object found")
        ELSE JSONParse(SubSeq(cleanText, firstBrace, lastBrace))

\* the responses studied: commentary, a fenced JSON object, commentary; and
\* short texts without a fence
NoteChars == {"x", "{", "}", "\n", Backtick}

Notes == UNION { [1..k -> NoteChars] : k \in 0..MaxNote }

OpeningFences ==
    { <<Backtick, Backtick, Backtick,"j","s","o","n","\n">>,
      <<Backtick, Backtick, Backtick,"J","S","O","N","\n">>,
      <<Backtick, Backtick, Backtick,"\n">> }

ClosingFences == { <<"\n",Backtick, Backtick, Backtick>> }

EmbeddedObjects ==
    { <<"{","\"","a","\"",":","1","}">>,
      <<"{","\"","a","\"",":","{","}","}">>,
      <<"{","\n"," ","\"","a","\"",":"," ","\"","x","\"","\n","}">> }

FencedResponses ==
    { [fenced |-> TRUE, lead |-> l, open |-> o, object |-> j, close |-> c,
       trail |-> t] :
        l \in Notes, o \in OpeningFences, j \in EmbeddedObjects,
        c \in ClosingFences, t \in Notes }

PlainResponses ==
    { [fenced |-> FALSE, lead |-> l, open |-> <<>>, object |-> <<>>,
       close |-> <<>>, trail |-> <<>>] :
        l \in UNION { [1..k -> {"x", "{", "}"}] : k \in 0..(MaxNote + 1) } }

JSONInputs == FencedResponses \cup PlainResponses

ResponseText(r) == r.lead \o r.open \o r.object \o r.close \o r.trail

(***************************************************************************)
(* The world of the agent: databases, providers, personas, utterances      *)
(***************************************************************************)
Agents == {"a1"}

DBs == {"d1", "d2"}

Providers == {"postgresql", "mysql"}

\* d1 is a PostgreSQL database, d2 a MySQL database
DBType(d) == IF d = "d1" THEN "postgresql" ELSE "mysql"

\* the user tables a database can hold; d1 can be a database without any
TableSets(d) ==
    IF d = "d1" THEN { {}, {"users"} } ELSE { {"orders"} }

DEFAULT_COACH_PERSONA_PROMPT == "Ace"

Personas == {"custom persona"}

Utterances == {"Show me the data", "How many users registered this month?"}

\* a value that is null or undefined in the program
None == [none |-> TRUE]

(***************************************************************************)
(* getDatabaseSchema (part_000)                                            *)
(***************************************************************************)
\* the rendering of one introspection pass: the text lists the tables in the
\* quoting style of the provider argument; with no table it is the empty text
EmptyText == [quote |-> "", tables |-> {}]

SchemaDescription(prov, tables) ==
    IF tables = {} THEN EmptyText ELSE [quote |-> prov, tables |-> tables]

\* JavaScript truthiness of a string | null | undefined value
Truthy(text) == text # None /\ text # EmptyText

\* the catalog queries of one provider fail on a database of the other:
\* pg_catalog.pg_tables exists only in PostgreSQL, DATABASE() only in MySQL
CatalogQueriesRun(db, prov) == prov = DBType(db)

\* if (schemaCache && !forceRefresh) return schemaCache
CacheHit(forceRefresh) == Truthy(schemaCache) /\ ~forceRefresh

\* after a failed pass the function has not reached line 40
CacheAfterFailure_cleared(cache) == None

CacheAfterFailure(cache) == cache

(***************************************************************************)
(* Squix.connect                                                           *)
(***************************************************************************)
ConnectionFields == {"host", "port", "user", "password", "database"}

\* a connection string, or parameters of which some fields may be missing;
\* where an incomplete set points plays no part, connect throws before it
\* builds the URL
Connections ==
    { [kind |-> k, db |-> d, missing |-> {}] :
            k \in {"string", "params"}, d \in DBs }
        \cup { [kind |-> "params", db |-> "d1", missing |-> m] :
                    m \in { x \in SUBSET ConnectionFields :
                               Cardinality(x) \in {1, 5} } }

\* !host || !port || !user || !password || !database; a field counts as
\* missing when it is undefined or falsy ("" or port 0)
MissingParameters_fourFields(connection) ==
    connection.kind = "params" /\ connection.missing \ {"database"} # {}

MissingParameters(connection) ==
    connection.kind = "params" /\ connection.missing # {}

IdleConnect ==
    [pc |-> "idle", outcome |-> "none", err |-> "none",
     db |-> "none", provider |-> "none"]

ConnectFailed(detail) ==
    [IdleConnect EXCEPT !.pc = "done", !.outcome = "err", !.err = detail]

ConnectSucceeded ==
    [IdleConnect EXCEPT !.pc = "done", !.outcome = "ok"]

\* connect, up to the await of $connect
Connect(a, prov, connection) ==
    /\ connectCall[a].pc \in {"idle", "done"}
    /\ provider' = [provider EXCEPT ![a] = prov]
    /\ IF MissingParameters(connection)
       THEN /\ connectCall' = [connectCall EXCEPT
                                 ![a] = ConnectFailed("parameters")]
            /\ UNCHANGED prisma
       ELSE /\ prisma' = [prisma EXCEPT ![a] = connection.db]
            /\ connectCall' = [connectCall EXCEPT
                                 ![a] = [IdleConnect EXCEPT !.pc = "connecting"]]
    /\ UNCHANGED <<schemaCache, dbContent, dbSchema, defaultSystemPrompt,
                   chatCall, schemaCall, everConnected, everLoaded,
                   sqlInput, sqlResult,
                   jsonInput, jsonResult>>

\* $connect resolves; on success getDatabaseSchema(this.prisma, this.provider)
\* is called, which returns the cached text or starts an introspection pass
ConnectResolved(a, ok) ==
    /\ connectCall[a].pc = "connecting"
    /\ IF ~ok
       THEN /\ connectCall' = [connectCall EXCEPT
                                 ![a] = ConnectFailed("connection")]
            /\ UNCHANGED <<dbSchema, everConnected>>
       ELSE IF CacheHit(FALSE)
            THEN /\ dbSchema' = [dbSchema EXCEPT ![a] = schemaCache]
                 /\ connectCall' = [connectCall EXCEPT
                                      ![a] = ConnectSucceeded]
                 /\ everConnected' = [everConnected EXCEPT ![a] = TRUE]
            ELSE /\ connectCall' = [connectCall EXCEPT
                                      ![a] = [@ EXCEPT !.pc = "introspecting",
                                                       !.db = prisma[a],
                                                       !.provider = provider[a]]]
                 /\ UNCHANGED <<dbSchema, everConnected>>
    /\ UNCHANGED <<schemaCache, dbContent, prisma, provider,
                   defaultSystemPrompt, chatCall, schemaCall, everLoaded,
                   sqlInput, sqlResult,
                   jsonInput, jsonResult>>

\* the introspection queries of the connect's getDatabaseSchema call resolve
ConnectIntrospected(a, ok) ==
    /\ connectCall[a].pc = "introspecting"
    /\ ok => CatalogQueriesRun(connectCall[a].db, connectCall[a].provider)
    /\ IF ~ok
       THEN /\ connectCall' = [connectCall EXCEPT
                                 ![a] = ConnectFailed("introspection")]
            /\ schemaCache' = CacheAfterFailure(schemaCache)
            /\ UNCHANGED <<dbSchema, everConnected, everLoaded>>
       ELSE LET schemaDescription ==
                    SchemaDescription(connectCall[a].provider,
                                      dbContent[connectCall[a].db])
            IN  /\ schemaCache' = schemaDescription
                /\ dbSchema' = [dbSchema EXCEPT ![a] = schemaDescription]
                /\ connectCall' = [connectCall EXCEPT
                                     ![a] = ConnectSucceeded]
                /\ everConnected' = [everConnected EXCEPT ![a] = TRUE]
                /\ everLoaded' = TRUE
    /\ UNCHANGED <<dbContent, prisma, provider, defaultSystemPrompt,
                   chatCall, schemaCall, sqlInput, sqlResult,
                   jsonInput, jsonResult>>

(***************************************************************************)
(* getDatabaseSchema called directly by the host, or by the connect of     *)
(* another Squix instance of the process: both share schemaCache           *)
(***************************************************************************)
IdleSchemaCall ==
    [pc |-> "idle", outcome |-> "none", db |-> "none", provider |-> "none",
     forceRefresh |-> FALSE, text |-> None]

\* the call, up to its first await: the cached text, or the first query
GetDatabaseSchema(db, prov, forceRefresh) ==
    /\ schemaCall.pc \in {"idle", "done"}
    /\ schemaCall' =
         IF CacheHit(forceRefresh)
         THEN [IdleSchemaCall EXCEPT !.pc = "done", !.outcome = "ok",
                                     !.text = schemaCache]
         ELSE [IdleSchemaCall EXCEPT !.pc = "introspecting",
                                     !.db = db, !.provider = prov,
                                     !.forceRefresh = forceRefresh]
    /\ UNCHANGED <<schemaCache, dbContent, prisma, dbSchema, provider,
                   defaultSystemPrompt, connectCall, chatCall,
                   everConnected, everLoaded, sqlInput, sqlResult,
                   jsonInput, jsonResult>>

\* the introspection queries of the direct call resolve
SchemaIntrospected(ok) ==
    /\ schemaCall.pc = "introspecting"
    /\ ok => CatalogQueriesRun(schemaCall.db, schemaCall.provider)
    /\ IF ~ok
       THEN /\ schemaCall' = [IdleSchemaCall EXCEPT
                                     !.pc = "done", !.outcome = "err",
                                     !.forceRefresh = schemaCall.forceRefresh]
            /\ schemaCache' = CacheAfterFailure(schemaCache)
            /\ UNCHANGED everLoaded
       ELSE LET schemaDescription ==
                    SchemaDescription(schemaCall.provider,
                                      dbContent[schemaCall.db])
            IN  /\ schemaCache' = schemaDescription
                /\ schemaCall' = [IdleSchemaCall EXCEPT
                                     !.pc = "done", !.outcome = "ok",
                                     !.forceRefresh = schemaCall.forceRefresh,
                                     !.text = schemaDescription]
                /\ everLoaded' = TRUE
    /\ UNCHANGED <<dbContent, prisma, dbSchema, provider,
                   defaultSystemPrompt, connectCall, chatCall,
                   everConnected, sqlInput, sqlResult,
                   jsonInput, jsonResult>>

\* somebody changes the tables of a database
AlterDatabase(d) ==
    /\ \E t \in TableSets(d) : t # dbContent[d]
                                 /\ dbContent' = [dbContent EXCEPT ![d] = t]
    /\ UNCHANGED <<schemaCache, prisma, dbSchema, provider,
                   defaultSystemPrompt, connectCall, chatCall, schemaCall,
                   everConnected, everLoaded, sqlInput, sqlResult,
                   jsonInput, jsonResult>>

(***************************************************************************)
(* Squix.chat                                                              *)
(***************************************************************************)
NoClient == "none"

\* the key is not in the object, or holds a number instead of text
Absent == "<absent>"

NotText == "<number>"

IntentValues ==
    {Absent, NotText, "database_query", "strategic_advice",
     "clarification_needed", "general_chat", "something_else"}

MissingInfoValues == {Absent, "", "the date range"}

\* what parseIntelligentJson makes of the classifier's response text: an
\* error, or an object with its intent and missing_info keys
ClassifierResponses ==
    { [kind |-> "fail", intent |-> Absent, missing_info |-> Absent] }
        \cup { [kind |-> "obj", intent |-> i, missing_info |-> Absent] :
                    i \in IntentValues }
        \cup { [kind |-> "obj", intent |-> "clarification_needed",
                 missing_info |-> m] : m \in MissingInfoValues }

\* the statements the SQL model answers with in a chat
ChatQueries ==
    { <<"a","b",";">>,
      <<"a",";","b">>,
      <<"a",";"," ",";">>,
      <<"d","r","o","p">> }

SQLResponses ==
    { ParseFailed, ParsedQuery("absent", <<>>) }
        \cup { ParsedQuery("string", q) : q \in ChatQueries }

NoCalls == [classifier |-> 0, sql |-> 0, query |-> 0, coach |-> 0, chat |-> 0]

NotExecuted == [sent |-> FALSE, text |-> <<>>, db |-> NoClient]

IdleChat ==
    [pc |-> "idle", outcome |-> "none", err |-> "none",
     userPrompt |-> "none", systemPrompt |-> "none",
     classificationPrompt |-> None, intent |-> "none",
     missing_info |-> "none", sqlGenerationPrompt |-> None,
     sqlResponse |-> None, generatedQuery |-> <<>>,
     executed |-> NotExecuted, answerPrompt |-> None,
     finalAnswer |-> None, calls |-> NoCalls]

\* one await of an external operation (a model's generateContent, or
\* $queryRawUnsafe): the operation is invoked once
Invoke_withRetry(calls, operation) == [calls EXCEPT ![operation] = @ + 2]

Invoke(calls, operation) == [calls EXCEPT ![operation] = @ + 1]

\* a prompt is kept while its model call is in flight, the arguments of the
\* call until it settles; a throw inside chat is not caught by chat
ChatFailed_fallbackAnswer(call, detail) ==
    [call EXCEPT !.pc = "done", !.outcome = "ok",
                 !.finalAnswer = [kind |-> "fallback", about |-> detail],
                 !.userPrompt = "none", !.systemPrompt = "none",
                 !.classificationPrompt = None,
                 !.sqlGenerationPrompt = None, !.answerPrompt = None]

ChatFailed(call, detail) ==
    [call EXCEPT !.pc = "done", !.outcome = "err", !.err = detail,
                 !.userPrompt = "none", !.systemPrompt = "none",
                 !.classificationPrompt = None,
                 !.sqlGenerationPrompt = None, !.answerPrompt = None]

ChatReturned(call, finalAnswer) ==
    [call EXCEPT !.pc = "done", !.outcome = "ok", !.finalAnswer = finalAnswer,
                 !.userPrompt = "none", !.systemPrompt = "none",
                 !.classificationPrompt = None,
                 !.sqlGenerationPrompt = None, !.answerPrompt = None]

\* the options the agent is constructed with, and what the constructor
\* keeps of them: options?.defaultSystemPrompt ?? DEFAULT_COACH_PERSONA_PROMPT
ConstructorOptions == [defaultSystemPrompt |-> "configured persona"]

Constructor(options) ==
    IF options.defaultSystemPrompt = Absent
    THEN DEFAULT_COACH_PERSONA_PROMPT
    ELSE options.defaultSystemPrompt

\* !this.prisma || !this.dbSchema
NotConnected_clientOnly(a) == prisma[a] = NoClient

NotConnected(a) == prisma[a] = NoClient \/ ~Truthy(dbSchema[a])

\* options?.systemPrompt ?? this.defaultSystemPrompt
SystemPrompt_ignoresOption(a, optionsSystemPrompt) == defaultSystemPrompt[a]

SystemPrompt(a, optionsSystemPrompt) ==
    IF optionsSystemPrompt = Absent THEN defaultSystemPrompt[a]
    ELSE optionsSystemPrompt

\* ${this.dbSchema} in the classification and SQL generation prompts
SchemaForPrompt_sharedCache(a) == schemaCache

SchemaForPrompt(a) == dbSchema[a]

\* chat, up to the await of the classifier call
Chat_reloadsSchema(a, userPrompt, optionsSystemPrompt) ==
    /\ chatCall[a].pc \in {"idle", "done"}
    /\ chatCall' = [chatCall EXCEPT ![a] =
         IF NotConnected(a)
         THEN ChatFailed(IdleChat, "not connected")
         ELSE LET systemPrompt == SystemPrompt(a, optionsSystemPrompt)
              IN  [IdleChat EXCEPT
                     !.pc = "classifying",
                     !.userPrompt = userPrompt,
                     !.systemPrompt = systemPrompt,
                     !.classificationPrompt =
                         [persona |-> systemPrompt, schema |-> SchemaForPrompt(a),
                          user |-> userPrompt],
                     !.calls = Invoke(@, "classifier")]]
    /\ dbSchema' = [dbSchema EXCEPT ![a] =
                        IF Truthy(schemaCache) THEN schemaCache ELSE @]
    /\ UNCHANGED <<schemaCache, dbContent, prisma, provider,
                   defaultSystemPrompt, connectCall, schemaCall,
                   everConnected, everLoaded, sqlInput, sqlResult,
                   jsonInput, jsonResult>>

Chat(a, userPrompt, optionsSystemPrompt) ==
    /\ chatCall[a].pc \in {"idle", "done"}
    /\ chatCall' = [chatCall EXCEPT ![a] =
         IF NotConnected(a)
         THEN ChatFailed(IdleChat, "not connected")
         ELSE LET systemPrompt == SystemPrompt(a, optionsSystemPrompt)
              IN  [IdleChat EXCEPT
                     !.pc = "classifying",
                     !.userPrompt = userPrompt,
                     !.systemPrompt = systemPrompt,
                     !.classificationPrompt =
                         [persona |-> systemPrompt, schema |-> SchemaForPrompt(a),
                          user |-> userPrompt],
                     !.calls = Invoke(@, "classifier")]]
    /\ UNCHANGED <<schemaCache, dbContent, prisma, dbSchema, provider,
                   defaultSystemPrompt, connectCall, schemaCall,
                   everConnected, everLoaded, sqlInput, sqlResult,
                   jsonInput, jsonResult>>

\* the branch the if / else if / else of chat takes on intent
Route_adviceAsChat(intent) ==
    IF intent = "database_query" THEN "analysis"
    ELSE IF intent = "clarification_needed" THEN "clarification"
    ELSE "chat"

Route_noDefault(intent) ==
    IF intent \in {"database_query", "strategic_advice"} THEN "analysis"
    ELSE IF intent = "general_chat" THEN "chat"
    ELSE "clarification"

Route(intent) ==
    IF intent \in {"database_query", "strategic_advice"} THEN "analysis"
    ELSE IF intent = "clarification_needed" THEN "clarification"
    ELSE "chat"

\* missing_info || "more specific details", inside the fixed template
ClarificationAnswer_nullish(missing_info) ==
    [kind |-> "clarification",
     about |-> IF missing_info = Absent
               THEN "more specific details" ELSE missing_info]

ClarificationAnswer(missing_info) ==
    [kind |-> "clarification",
     about |-> IF missing_info \in {Absent, ""}
               THEN "more specific details" ELSE missing_info]

\* the classifier call settles; on success the response is parsed and the
\* branch runs up to its first await, or to the return
ClassifierResolved(a, ok, response) ==
    /\ chatCall[a].pc = "classifying"
    /\ LET call == chatCall[a]
           classified == [call EXCEPT !.intent = response.intent,
                                      !.missing_info = response.missing_info,
                                      !.classificationPrompt = None]
       IN chatCall' = [chatCall EXCEPT ![a] =
            IF ~ok THEN ChatFailed(call, "classifier call")
            ELSE IF response.kind = "fail"
            THEN ChatFailed(call, "classification parse")
            ELSE IF Route(response.intent) = "analysis"
            THEN [classified EXCEPT
                    !.pc = "generating",
                    !.sqlGenerationPrompt =
                        [dialect |-> IF provider[a] = "mysql"
                                     THEN "MySQL" ELSE "PostgreSQL",
                         schema |-> SchemaForPrompt(a),
                         user |-> call.userPrompt],
                    !.calls = Invoke(@, "sql")]
            ELSE IF Route(response.intent) = "clarification"
            THEN ChatReturned(classified,
                              ClarificationAnswer(response.missing_info))
            ELSE [classified EXCEPT
                    !.pc = "synthesizing",
                    !.answerPrompt =
                        [mode |-> "chat", persona |-> call.systemPrompt,
                         user |-> call.userPrompt],
                    !.calls = Invoke(@, "chat")]]
    /\ UNCHANGED <<schemaCache, dbContent, prisma, dbSchema, provider,
                   defaultSystemPrompt, connectCall, schemaCall,
                   everConnected, everLoaded, sqlInput, sqlResult,
                   jsonInput, jsonResult>>

\* the argument of this.prisma.$queryRawUnsafe
StatementToExecute_raw(parsed, generatedQuery) == parsed.query

StatementToExecute(parsed, generatedQuery) == generatedQuery

\* the SQL model call settles; on success getSQLFromLLM extracts and
\* validates, and chat passes what it returned to $queryRawUnsafe
SQLResolved(a, ok, parsed) ==
    /\ chatCall[a].pc = "generating"
    /\ LET call == chatCall[a]
           result == getSQLFromLLM(parsed)
       IN chatCall' = [chatCall EXCEPT ![a] =
            IF ~ok THEN ChatFailed(call, "sql call")
            ELSE IF ~result.ok
            THEN ChatFailed([call EXCEPT !.sqlResponse = parsed],
                            "sql generation")
            ELSE [call EXCEPT
                    !.pc = "executing",
                    !.sqlGenerationPrompt = None,
                    !.sqlResponse = parsed,
                    !.generatedQuery = result.value,
                    !.executed =
                        [sent |-> TRUE,
                         text |-> StatementToExecute(parsed, result.value),
                         db |-> prisma[a]],
                    !.calls = Invoke(@, "query")]]
    /\ UNCHANGED <<schemaCache, dbContent, prisma, dbSchema, provider,
                   defaultSystemPrompt, connectCall, schemaCall,
                   everConnected, everLoaded, sqlInput, sqlResult,
                   jsonInput, jsonResult>>

\* the query settles; on success the rows are serialized into the analysis
\* prompt and the coach model is called
QueryResolved_notAwaited(a, ok) ==
    /\ chatCall[a].pc \in {"generating", "executing"}
    /\ LET call == chatCall[a]
       IN chatCall' = [chatCall EXCEPT ![a] =
            IF ~ok THEN ChatFailed(call, "execution")
            ELSE [call EXCEPT
                    !.pc = "synthesizing",
                    !.sqlGenerationPrompt = None,
                    !.answerPrompt =
                        [mode |-> "coach", persona |-> call.systemPrompt,
                         user |-> call.userPrompt],
                    !.calls = Invoke(@, "coach")]]
    /\ UNCHANGED <<schemaCache, dbContent, prisma, dbSchema, provider,
                   defaultSystemPrompt, connectCall, schemaCall,
                   everConnected, everLoaded, sqlInput, sqlResult,
                   jsonInput, jsonResult>>

QueryResolved(a, ok) ==
    /\ chatCall[a].pc = "executing"
    /\ LET call == chatCall[a]
       IN chatCall' = [chatCall EXCEPT ![a] =
            IF ~ok THEN ChatFailed(call, "execution")
            ELSE [call EXCEPT
                    !.pc = "synthesizing",
                    !.answerPrompt =
                        [mode |-> "coach", persona |-> call.systemPrompt,
                         user |-> call.userPrompt],
                    !.calls = Invoke(@, "coach")]]
    /\ UNCHANGED <<schemaCache, dbContent, prisma, dbSchema, provider,
                   defaultSystemPrompt, connectCall, schemaCall,
                   everConnected, everLoaded, sqlInput, sqlResult,
                   jsonInput, jsonResult>>

\* the coach or chat model call settles; its text is the final answer
AnswerResolved(a, ok) ==
    /\ chatCall[a].pc = "synthesizing"
    /\ LET call == chatCall[a]
       IN chatCall' = [chatCall EXCEPT ![a] =
            IF ~ok THEN ChatFailed(call, "answer call")
            ELSE ChatReturned(call, [kind |-> call.answerPrompt.mode,
                                     about |-> "model text"])]
    /\ UNCHANGED <<schemaCache, dbContent, prisma, dbSchema, provider,
                   defaultSystemPrompt, connectCall, schemaCall,
                   everConnected, everLoaded, sqlInput, sqlResult,
                   jsonInput, jsonResult>>

(***************************************************************************)
(* The agent in its process                                                *)
(***************************************************************************)
Init ==
    /\ schemaCache = None
    /\ dbContent \in { f \in [DBs -> SUBSET {"users", "orders"}] :
                          \A d \in DBs : f[d] \in TableSets(d) }
    /\ prisma = [a \in Agents |-> NoClient]
    /\ dbSchema = [a \in Agents |-> None]
    /\ provider = [a \in Agents |-> "none"]
    /\ defaultSystemPrompt = [a \in Agents |-> Constructor(ConstructorOptions)]
    /\ connectCall = [a \in Agents |-> IdleConnect]
    /\ chatCall = [a \in Agents |-> IdleChat]
    /\ schemaCall = IdleSchemaCall
    /\ everConnected = [a \in Agents |-> FALSE]
    /\ everLoaded = FALSE
    /\ sqlInput = None
    /\ sqlResult = NotRun
    /\ jsonInput = None
    /\ jsonResult = NotRun

Next ==
    \/ \E a \in Agents, prov \in Providers, c \in Connections :
           Connect(a, prov, c)
    \/ \E a \in Agents, ok \in BOOLEAN : ConnectResolved(a, ok)
    \/ \E a \in Agents, ok \in BOOLEAN : ConnectIntrospected(a, ok)
    \/ \E d \in DBs, f \in BOOLEAN : GetDatabaseSchema(d, DBType(d), f)
    \/ \E ok \in BOOLEAN : SchemaIntrospected(ok)
    \/ \E d \in DBs : AlterDatabase(d)
    \/ \E a \in Agents, u \in Utterances, o \in Personas \cup {Absent} :
           Chat(a, u, o)
    \/ \E a \in Agents, ok \in BOOLEAN, r \in ClassifierResponses :
           ClassifierResolved(a, ok, r)
    \/ \E a \in Agents, ok \in BOOLEAN, r \in SQLResponses :
           SQLResolved(a, ok, r)
    \/ \E a \in Agents, ok \in BOOLEAN : QueryResolved(a, ok)
    \/ \E a \in Agents, ok \in BOOLEAN : AnswerResolved(a, ok)

Spec == Init /\ [][Next]_vars

(***************************************************************************)
(* The validator on its own: getSQLFromLLM applied to one parsed response  *)
(***************************************************************************)
InitSQL ==
    /\ schemaCache = None
    /\ dbContent = [d \in DBs |-> CHOOSE t \in TableSets(d) : t # {}]
    /\ prisma = [a \in Agents |-> NoClient]
    /\ dbSchema = [a \in Agents |-> None]
    /\ provider = [a \in Agents |-> "none"]
    /\ defaultSystemPrompt = [a \in Agents |-> DEFAULT_COACH_PERSONA_PROMPT]
    /\ connectCall = [a \in Agents |-> IdleConnect]
    /\ chatCall = [a \in Agents |-> IdleChat]
    /\ schemaCall = IdleSchemaCall
    /\ everConnected = [a \in Agents |-> FALSE]
    /\ everLoaded = FALSE
    /\ sqlInput \in SQLInputs
    /\ sqlResult = NotRun
    /\ jsonInput = None
    /\ jsonResult = NotRun

Validate ==
    /\ sqlResult = NotRun
    /\ sqlResult' = getSQLFromLLM(sqlInput)
    /\ UNCHANGED <<schemaCache, dbContent, prisma, dbSchema, provider,
                   defaultSystemPrompt, connectCall, chatCall, schemaCall,
                   everConnected, everLoaded, sqlInput, jsonInput,
                   jsonResult>>

NextSQL == Validate

SpecSQL == InitSQL /\ [][NextSQL]_vars

(***************************************************************************)
(* The parser on its own: parseIntelligentJson applied to one response     *)
(***************************************************************************)
InitJSON ==
    /\ schemaCache = None
    /\ dbContent = [d \in DBs |-> CHOOSE t \in TableSets(d) : t # {}]
    /\ prisma = [a \in Agents |-> NoClient]
    /\ dbSchema = [a \in Agents |-> None]
    /\ provider = [a \in Agents |-> "none"]
    /\ defaultSystemPrompt = [a \in Agents |-> DEFAULT_COACH_PERSONA_PROMPT]
    /\ connectCall = [a \in Agents |-> IdleConnect]
    /\ chatCall = [a \in Agents |-> IdleChat]
    /\ schemaCall = IdleSchemaCall
    /\ everConnected = [a \in Agents |-> FALSE]
    /\ everLoaded = FALSE
    /\ sqlInput = None
    /\ sqlResult = NotRun
    /\ jsonInput \in JSONInputs
    /\ jsonResult = NotRun

ParseResponse ==
    /\ jsonResult = NotRun
    /\ jsonResult' = parseIntelligentJson(ResponseText(jsonInput))
    /\ UNCHANGED <<schemaCache, dbContent, prisma, dbSchema, provider,
                   defaultSystemPrompt, connectCall, chatCall, schemaCall,
                   everConnected, everLoaded, sqlInput, sqlResult,
                   jsonInput>>

NextJSON == ParseResponse

SpecJSON == InitJSON /\ [][NextJSON]_vars

(***************************************************************************)
(* Vocabulary of the properties                                            *)
(***************************************************************************)
\* the number of ';' that end the text
TrailingTerminators(t) ==
    CHOOSE k \in 0..Len(t) :
        /\ \A j \in (Len(t) - k + 1)..Len(t) : t[j] = ";"
        /\ (k = Len(t) \/ t[Len(t) - k] # ";")

\* the trimmed text has a ';' before its trailing run of terminators
HasInnerSeparator(q) ==
    LET t == trim(q)
    IN  \E i \in 1..(Len(t) - TrailingTerminators(t)) : t[i] = ";"

\* s[i..j] is a whole word: a maximal run of word characters
WholeWord(s, i, j) ==
    /\ 1 <= i /\ i <= j /\ j <= Len(s)
    /\ \A k \in i..j : IsWordChar(s[k])
    /\ (i = 1 \/ ~IsWordChar(s[i-1]))
    /\ (j = Len(s) \/ ~IsWordChar(s[j+1]))

\* w spells the keyword kw in some letter case
SpellsKeyword(w, kw) ==
    /\ Len(w) = Len(kw)
    /\ \A k \in 1..Len(kw) :
         \/ w[k] = kw[k]
         \/ \E n \in 1..26 : w[k] = LowerLetters[n] /\ kw[k] = UpperLetters[n]

ContainsDenylistedWord(s) ==
    \E kw \in dangerousKeywords, i \in 1..Len(s) :
        LET j == i + Len(kw) - 1
        IN  WholeWord(s, i, j) /\ SpellsKeyword(SubSeq(s, i, j), kw)

\* a step in which chat() is called on agent a
ChatStarts(a) ==
    chatCall[a].pc \in {"idle", "done"} /\ chatCall'[a] # chatCall[a]

\* a step in which an introspection pass fails
PassFails ==
    \/ schemaCall.pc = "introspecting" /\ schemaCall'.outcome = "err"
    \/ \E a \in Agents : /\ connectCall[a].pc = "introspecting"
                         /\ connectCall'[a].outcome = "err"

\* a step in which a getDatabaseSchema call without forceRefresh sends its
\* first catalog query
UnforcedPassStarts ==
    \/ /\ schemaCall.pc \in {"idle", "done"}
       /\ schemaCall'.pc = "introspecting"
       /\ ~schemaCall'.forceRefresh
    \/ \E a \in Agents : /\ connectCall[a].pc = "connecting"
                         /\ connectCall'[a].pc = "introspecting"

OnlyClassifierCalled ==
    [classifier |-> 1, sql |-> 0, query |-> 0, coach |-> 0, chat |-> 0]

UnknownIntents == {Absent, NotText, "something_else"}

(***************************************************************************)
(* Properties                                                              *)
(***************************************************************************)
\* C1: the text a chat call passes to $queryRawUnsafe is exactly the value
\* getSQLFromLLM returned for the SQL model's response of that call, and a
\* call whose response is rejected or cannot be extracted executes nothing.
C1_ExecutedIsValidated ==
    \A a \in Agents :
        /\ chatCall[a].executed.sent =>
             /\ chatCall[a].sqlResponse # None
             /\ getSQLFromLLM(chatCall[a].sqlResponse).ok
             /\ chatCall[a].executed.text =
                    getSQLFromLLM(chatCall[a].sqlResponse).value
             /\ chatCall[a].executed.text = chatCall[a].generatedQuery
        /\ chatCall[a].calls.query = 1 <=> chatCall[a].executed.sent
        /\ chatCall[a].err = "sql generation" => ~chatCall[a].executed.sent

\* a statement was executed whose text differs from the model's raw text
C1_Witness ==
    \E a \in Agents :
        /\ chatCall[a].executed.sent
        /\ chatCall[a].executed.text # chatCall[a].sqlResponse.query

\* C2: as long as no connect of an agent has completed successfully, every
\* chat call on it has failed with the not-connected error without a model
\* call or a query, so no chat call of it is ever in flight.
C2_NotConnectedFails ==
    \A a \in Agents :
        ~everConnected[a] =>
            \/ chatCall[a].pc = "idle"
            \/ /\ chatCall[a].pc = "done"
               /\ chatCall[a].outcome = "err"
               /\ chatCall[a].err = "not connected"
               /\ chatCall[a].calls = NoCalls
               /\ ~chatCall[a].executed.sent

\* chat has failed on an agent whose client exists (a connect is in
\* progress or has failed) while the process-wide cache holds a schema text
C2_Witness ==
    \E a \in Agents :
        /\ ~everConnected[a]
        /\ prisma[a] # NoClient
        /\ Truthy(schemaCache)
        /\ chatCall[a].err = "not connected"

\* C3: once a connect of the agent has completed successfully, a chat call
\* on it gets past the connection test and calls the classifier.
C3_ConnectedChatProceeds ==
    [][\A a \in Agents :
          (everConnected[a] /\ ChatStarts(a)) =>
              chatCall'[a].pc = "classifying"]_vars

\* C4: a statement of the SQL model with a ';' before its trailing run of
\* terminators makes the chat call fail; it is never returned or executed.
C4_InnerSeparatorRejected ==
    \A a \in Agents :
        ( /\ chatCall[a].sqlResponse # None
          /\ chatCall[a].sqlResponse.qtype = "string"
          /\ HasInnerSeparator(chatCall[a].sqlResponse.query) ) =>
            /\ chatCall[a].pc = "done"
            /\ chatCall[a].outcome = "err"
            /\ chatCall[a].err = "sql generation"
            /\ ~chatCall[a].executed.sent
            /\ chatCall[a].calls.query = 0

\* the model's statement ended in a terminator and also had an inner ';'
C4_Witness ==
    \E a \in Agents :
        /\ chatCall[a].sqlResponse # None
        /\ chatCall[a].sqlResponse.qtype = "string"
        /\ HasInnerSeparator(chatCall[a].sqlResponse.query)
        /\ TrailingTerminators(chatCall[a].sqlResponse.query) > 0
        /\ chatCall[a].err = "sql generation"

\* C5: a non-empty statement without inner ';' is rejected exactly when it
\* contains a denylisted keyword, in any letter case, as a whole word.
C5_KeywordRejection ==
    ( /\ sqlResult # NotRun
      /\ sqlInput.qtype = "string"
      /\ sqlInput.query # <<>>
      /\ ~HasInnerSeparator(sqlInput.query) ) =>
        (~sqlResult.ok <=> ContainsDenylistedWord(sqlInput.query))

\* an accepted statement in which a keyword is joined to a word character
C5_Witness ==
    /\ sqlResult.ok
    /\ \E kw \in dangerousKeywords :
           RegexTest_substring(toUpperCase(sqlInput.query), kw)

\* C6: a returned statement is trimmed, has no ';', no denylisted whole
\* word, and does not end in a terminator.
C6_ReturnedStatementClean ==
    sqlResult.ok =>
        /\ trim(sqlResult.value) = sqlResult.value
        /\ \A i \in 1..Len(sqlResult.value) : sqlResult.value[i] # ";"
        /\ ~ContainsDenylistedWord(sqlResult.value)
        /\ (sqlResult.value = <<>>
              \/ sqlResult.value[Len(sqlResult.value)] # ";")

\* C7: once an introspection pass has succeeded, no getDatabaseSchema call
\* without forceRefresh sends a catalog query.
C7_UnforcedCallsUseCache ==
    [][everLoaded => ~UnforcedPassStarts]_vars

\* C8 as stated: a failed introspection pass leaves the cache unset.
C8_FailureUnsetsCache ==
    [][PassFails => schemaCache' = None]_vars

\* C8: a failed introspection pass ends its call with the failure and
\* leaves the cache as it was, unset or holding the text of an earlier pass.
C8_FailureKeepsCache ==
    [][PassFails => schemaCache' = schemaCache]_vars

\* a forced refresh has failed and the cache still holds a text
C8_Witness ==
    /\ schemaCall.outcome = "err"
    /\ schemaCall.forceRefresh
    /\ Truthy(schemaCache)

\* C9: a chat call classified clarification_needed has returned the fixed
\* template around missing_info, or around the fallback phrase when
\* missing_info is absent or empty, after the classifier call alone.
C9_ClarificationIsTemplate ==
    \A a \in Agents :
        chatCall[a].intent = "clarification_needed" =>
            /\ chatCall[a].pc = "done"
            /\ chatCall[a].outcome = "ok"
            /\ chatCall[a].calls = OnlyClassifierCalled
            /\ ~chatCall[a].executed.sent
            /\ chatCall[a].finalAnswer.kind = "clarification"
            /\ chatCall[a].finalAnswer.about =
                   IF chatCall[a].missing_info \in {Absent, ""}
                   THEN "more specific details"
                   ELSE chatCall[a].missing_info

\* a clarification was answered with the fallback for an empty missing_info
C9_Witness ==
    \E a \in Agents :
        /\ chatCall[a].intent = "clarification_needed"
        /\ chatCall[a].missing_info = ""
        /\ chatCall[a].outcome = "ok"

\* C10 as stated: an intent that is absent, not text or unknown makes the
\* chat call fail without a further model call.
C10_UnknownIntentFails ==
    \A a \in Agents :
        chatCall[a].intent \in UnknownIntents =>
            /\ chatCall[a].pc = "done"
            /\ chatCall[a].outcome = "err"
            /\ chatCall[a].calls = OnlyClassifierCalled

\* C10: an intent that is absent, not text or unknown is handled as
\* general_chat: one chat model call, no SQL model call, no query, no coach
\* call, and the call fails only if that chat model call fails.
C10_UnknownIntentIsGeneralChat ==
    \A a \in Agents :
        chatCall[a].intent \in UnknownIntents =>
            /\ chatCall[a].pc \in {"synthesizing", "done"}
            /\ chatCall[a].calls =
                   [classifier |-> 1, sql |-> 0, query |-> 0,
                    coach |-> 0, chat |-> 1]
            /\ ~chatCall[a].executed.sent
            /\ chatCall[a].outcome = "ok" =>
                   chatCall[a].finalAnswer.kind = "chat"
            /\ chatCall[a].outcome = "err" =>
                   chatCall[a].err = "answer call"

\* a chat whose classification had no intent key returned the chat answer
C10_Witness ==
    \E a \in Agents :
        /\ chatCall[a].intent = Absent
        /\ chatCall[a].outcome = "ok"
        /\ chatCall[a].finalAnswer.kind = "chat"

\* C11: connect with connection parameters fails with the parameter error
\* exactly when a field is missing, and then it has created no client,
\* started no connection attempt or introspection, and written no schema.
C11_IncompleteParametersRejected ==
    [][\A a \in Agents :
          (/\ connectCall[a].pc \in {"idle", "done"}
           /\ chatCall' = chatCall
           /\ schemaCall' = schemaCall
           /\ dbContent' = dbContent) =>
          \A c \in Connections :
              (c.kind = "params" /\ Connect(a, provider'[a], c)) =>
                  /\ connectCall'[a].err = "parameters" <=> c.missing # {}
                  /\ c.missing # {} =>
                       /\ connectCall'[a].pc = "done"
                       /\ connectCall'[a].outcome = "err"
                       /\ prisma' = prisma
                       /\ dbSchema' = dbSchema
                       /\ schemaCache' = schemaCache
                  /\ c.missing = {} =>
                       /\ connectCall'[a].pc = "connecting"
                       /\ prisma'[a] = c.db]_vars

\* a connect was rejected for its parameters on an agent without a client
C11_Witness ==
    \E a \in Agents :
        /\ connectCall[a].err = "parameters"
        /\ prisma[a] = NoClient
        /\ dbSchema[a] = None

\* a step in which one stage of the chat call of agent a fails: a model
\* call or the query rejects, or a response does not pass its parser
StageFails(a) ==
    /\ chatCall'[a] # chatCall[a]
    /\ \/ /\ chatCall[a].pc = "classifying"
          /\ \E r \in ClassifierResponses :
                \/ ClassifierResolved(a, FALSE, r)
                \/ r.kind = "fail" /\ ClassifierResolved(a, TRUE, r)
       \/ /\ chatCall[a].pc = "generating"
          /\ \E p \in SQLResponses :
                \/ SQLResolved(a, FALSE, p)
                \/ ~getSQLFromLLM(p).ok /\ SQLResolved(a, TRUE, p)
       \/ QueryResolved(a, FALSE)
       \/ AnswerResolved(a, FALSE)

\* C12: when a stage of a chat call fails the call is over and has failed:
\* it returns no answer, the failing step starts no further operation, and
\* a failed call is only ever followed by a new call.
C12_StageFailureFailsChat ==
    [][\A a \in Agents :
          /\ StageFails(a) =>
               /\ chatCall'[a].pc = "done"
               /\ chatCall'[a].outcome = "err"
               /\ chatCall'[a].finalAnswer = None
               /\ chatCall'[a].calls = chatCall[a].calls
               /\ chatCall'[a].executed = chatCall[a].executed
          /\ chatCall'[a].outcome = "err" =>
               /\ chatCall'[a].pc = "done"
               /\ chatCall'[a].finalAnswer = None
          /\ (chatCall[a].outcome = "err" /\ chatCall'[a] # chatCall[a]) =>
               ChatStarts(a)]_vars

\* a chat whose query was sent and failed: no coach call, no answer
C12_Witness ==
    \E a \in Agents :
        /\ chatCall[a].err = "execution"
        /\ chatCall[a].executed.sent
        /\ chatCall[a].calls.coach = 0
        /\ chatCall[a].finalAnswer = None

\* C13: within one chat call the classifier, the SQL model, the query and
\* the synthesis model (coach or chat) are each invoked at most once.
C13_EachOperationAtMostOnce ==
    \A a \in Agents :
        LET calls == chatCall[a].calls
        IN  /\ calls.classifier <= 1
            /\ calls.sql <= 1
            /\ calls.query <= 1
            /\ calls.coach + calls.chat <= 1

\* a chat that went through all four operations and then failed
C13_Witness ==
    \E a \in Agents :
        /\ chatCall[a].err = "answer call"
        /\ chatCall[a].calls =
             [classifier |-> 1, sql |-> 1, query |-> 1, coach |-> 1,
              chat |-> 0]

InFlight(call) == call.pc \notin {"idle", "done"}

\* C14: the persona of a chat call is its systemPrompt option, or the
\* default configured at construction when the call has none; the
\* classification prompt and the coach or chat prompt of that call embed
\* this persona, and no step changes the configured default.
C14_OptionPersonaForThisCallOnly ==
    [][\A a \in Agents :
          /\ \A u \in Utterances, o \in Personas \cup {Absent} :
                (Chat(a, u, o) /\ InFlight(chatCall'[a])) =>
                    chatCall'[a].systemPrompt =
                        IF o = Absent THEN Constructor(ConstructorOptions)
                        ELSE o
          /\ (InFlight(chatCall[a]) /\ InFlight(chatCall'[a])) =>
                chatCall'[a].systemPrompt = chatCall[a].systemPrompt
          /\ chatCall'[a].classificationPrompt # None =>
                chatCall'[a].classificationPrompt.persona =
                    chatCall'[a].systemPrompt
          /\ chatCall'[a].answerPrompt # None =>
                chatCall'[a].answerPrompt.persona = chatCall'[a].systemPrompt
          /\ defaultSystemPrompt'[a] = defaultSystemPrompt[a]]_vars

\* a coach prompt written in the persona of the call's option, on an agent
\* that still has its configured default
C14_Witness ==
    \E a \in Agents :
        /\ chatCall[a].answerPrompt # None
        /\ chatCall[a].answerPrompt.mode = "coach"
        /\ chatCall[a].answerPrompt.persona \in Personas
        /\ defaultSystemPrompt[a] = Constructor(ConstructorOptions)
        /\ defaultSystemPrompt[a] \notin Personas

\* the renderings an introspection of database db can produce
RenderingsOf(db) ==
    { SchemaDescription(DBType(db), tables) : tables \in TableSets(db) }

\* a step in which the connect of agent a completes successfully
ConnectCompletes(a) ==
    /\ connectCall[a].pc \in {"connecting", "introspecting"}
    /\ connectCall'[a].pc = "done"
    /\ connectCall'[a].outcome = "ok"

\* C15: when a connect completes successfully, the schema text the agent
\* holds for its chat prompts is a rendering of the database its client is
\* connected to, whatever was connected to earlier in the process.
C15_SchemaIsOfConnectedDatabase ==
    [][\A a \in Agents :
          ConnectCompletes(a) => dbSchema'[a] \in RenderingsOf(prisma'[a])]_vars

Contains(s, c) == \E i \in 1..Len(s) : s[i] = c

\* the text has no "{", or no "}" after its first "{"
NoBracePair(s) ==
    ~\E i \in 1..Len(s), j \in 1..Len(s) :
        i < j /\ s[i] = "{" /\ s[j] = "}"

\* C16 (as stated): for commentary of any content around the fenced block,
\* parseIntelligentJson returns the embedded object; a text without a "{"
\* followed by a "}" raises an error, and whatever is returned has been
\* parsed.
C16_AnyCommentary ==
    jsonResult # NotRun =>
        /\ jsonInput.fenced =>
              /\ jsonResult.ok
              /\ jsonResult.value = JSONValue(jsonInput.object)
        /\ NoBracePair(ResponseText(jsonInput)) => ~jsonResult.ok
        /\ jsonResult.ok => JSONParse(jsonResult.value).ok

\* C16 (amended): the embedded object is returned when the leading
\* commentary holds no "{" and the trailing commentary no "}".
C16_BraceFreeCommentary ==
    jsonResult # NotRun =>
        /\ (/\ jsonInput.fenced
            /\ ~Contains(jsonInput.lead, "{")
            /\ ~Contains(jsonInput.trail, "}")) =>
              /\ jsonResult.ok
              /\ jsonResult.value = JSONValue(jsonInput.object)
        /\ NoBracePair(ResponseText(jsonInput)) => ~jsonResult.ok
        /\ jsonResult.ok => JSONParse(jsonResult.value).ok

\* a nested object returned from between commentary on both sides
C16_Witness ==
    /\ jsonResult # NotRun
    /\ jsonInput.fenced
    /\ Contains(jsonInput.lead, "x") /\ Contains(jsonInput.lead, "}")
    /\ Contains(jsonInput.trail, "x") /\ Contains(jsonInput.trail, "{")
    /\ jsonInput.object = <<"{","\"","a","\"",":","{","}","}">>
    /\ jsonResult.ok
    /\ jsonResult.value = jsonInput.object

AnalysisIntents == {"database_query", "strategic_advice"}

Started(classifier, sql, query, coach, chat) ==
    [classifier |-> classifier, sql |-> sql, query |-> query,
     coach |-> coach, chat |-> chat]

\* C18: in a chat classified database_query or strategic_advice the
\* operations start in the order classifier, SQL model, query, coach:
\* while one is awaited, those before it have been invoked and have
\* resolved, and none after it has been invoked; the query is sent only
\* for a response the validator accepted.
C18_StagesInOrder ==
    \A a \in Agents :
        LET call == chatCall[a]
        IN  call.intent \in AnalysisIntents =>
              /\ call.pc \in {"generating", "executing", "synthesizing",
                              "done"}
              /\ call.pc = "generating" =>
                    call.calls = Started(1, 1, 0, 0, 0)
              /\ call.pc = "executing" =>
                    call.calls = Started(1, 1, 1, 0, 0)
              /\ call.pc = "synthesizing" =>
                    call.calls = Started(1, 1, 1, 1, 0)
              /\ call.pc = "done" =>
                    call.calls =
                        IF call.err \in {"sql call", "sql generation"}
                        THEN Started(1, 1, 0, 0, 0)
                        ELSE IF call.err = "execution"
                        THEN Started(1, 1, 1, 0, 0)
                        ELSE Started(1, 1, 1, 1, 0)
              /\ call.executed.sent <=> call.calls.query = 1
              /\ call.calls.query = 1 => getSQLFromLLM(call.sqlResponse).ok

\* a strategic_advice chat waiting for the coach, after the three
\* operations before it
C18_Witness ==
    \E a \in Agents :
        /\ chatCall[a].intent = "strategic_advice"
        /\ chatCall[a].pc = "synthesizing"
        /\ chatCall[a].executed.sent
        /\ chatCall[a].calls = Started(1, 1, 1, 1, 0)

\* C19: a chat that returns for database_query or strategic_advice has run
\* the SQL model, one query and the coach model; a general_chat never runs
\* the SQL model, a query or the coach, and returns after the chat model;
\* a chat that is over has returned one answer or has failed.
C19_IntentSelectsStages ==
    \A a \in Agents :
        LET call == chatCall[a]
            returned == call.pc = "done" /\ call.outcome = "ok"
        IN  /\ (returned /\ call.intent \in AnalysisIntents) =>
                  /\ call.calls = Started(1, 1, 1, 1, 0)
                  /\ call.executed.sent
                  /\ call.finalAnswer.kind = "coach"
            /\ call.intent = "general_chat" =>
                  /\ call.calls.sql = 0
                  /\ call.calls.query = 0
                  /\ call.calls.coach = 0
                  /\ ~call.executed.sent
                  /\ returned =>
                        /\ call.calls = Started(1, 0, 0, 0, 1)
                        /\ call.finalAnswer.kind = "chat"
            /\ call.pc = "done" =>
                  /\ call.outcome \in {"ok", "err"}
                  /\ call.outcome = "ok" <=> call.finalAnswer # None
                  /\ call.outcome = "ok" <=> call.err = "none"

\* a general_chat that returned the chat model's answer
C19_Witness ==
    \E a \in Agents :
        /\ chatCall[a].intent = "general_chat"
        /\ chatCall[a].pc = "done"
        /\ chatCall[a].finalAnswer = [kind |-> "chat", about |-> "model text"]
        /\ chatCall[a].calls = Started(1, 0, 0, 0, 1)

\* the direct getDatabaseSchema call that is over was a forced refresh, it
\* succeeded, and the cache has been written by nobody since
RefreshedCacheStands ==
    /\ schemaCall.pc = "done"
    /\ schemaCall.outcome = "ok"
    /\ schemaCall.forceRefresh
    /\ schemaCache = schemaCall.text

\* C20: a call with forceRefresh = true always starts an introspection
\* pass; when the pass succeeds the cache holds its rendering; and a call
\* without forceRefresh that follows (direct, or inside a connect) returns
\* that rendering without a pass of its own.
C20_RefreshedTextIsServed ==
    [][/\ (\E d \in DBs : GetDatabaseSchema(d, DBType(d), TRUE)) =>
              schemaCall'.pc = "introspecting"
       /\ (/\ schemaCall.pc = "introspecting"
           /\ schemaCall.forceRefresh
           /\ schemaCall'.outcome = "ok") =>
              /\ schemaCache' = SchemaDescription(schemaCall.provider,
                                                  dbContent[schemaCall.db])
              /\ schemaCall'.text = schemaCache'
       /\ (/\ RefreshedCacheStands
           /\ \E d \in DBs : GetDatabaseSchema(d, DBType(d), FALSE)) =>
              /\ schemaCall'.pc = "done"
              /\ schemaCall'.text = schemaCall.text
       /\ \A a \in Agents :
              (RefreshedCacheStands /\ ConnectResolved(a, TRUE)) =>
                  /\ connectCall'[a].pc = "done"
                  /\ dbSchema'[a] = schemaCall.text]_vars

\* a step of the chat call of agent a
ChatStep(a) == chatCall'[a] # chatCall[a]

\* C21: no step of a chat call changes the schema cache or the agent's
\* schema text, provider, client or default persona; the cache changes only
\* in a step in which an introspection pass of getDatabaseSchema resolves;
\* and a chat call starts from nothing of the call before it.
C21_ChatLeavesStateAlone ==
    [][\A a \in Agents :
          /\ ChatStep(a) =>
                /\ schemaCache' = schemaCache
                /\ dbSchema' = dbSchema
                /\ provider' = provider
                /\ prisma' = prisma
                /\ defaultSystemPrompt' = defaultSystemPrompt
          /\ schemaCache' # schemaCache =>
                \/ schemaCall.pc = "introspecting"
                \/ \E b \in Agents : connectCall[b].pc = "introspecting"
          /\ ChatStarts(a) =>
                /\ chatCall'[a].intent = "none"
                /\ chatCall'[a].missing_info = "none"
                /\ chatCall'[a].sqlGenerationPrompt = None
                /\ chatCall'[a].sqlResponse = None
                /\ chatCall'[a].generatedQuery = <<>>
                /\ chatCall'[a].executed = NotExecuted
                /\ chatCall'[a].answerPrompt = None
                /\ chatCall'[a].finalAnswer = None
                /\ chatCall'[a].calls \in {NoCalls, Started(1, 0, 0, 0, 0)}]_vars

\* a chat has run its query and returned the coach's answer while the
\* cache holds another text than the agent: the chat has touched neither
C21_Witness ==
    \E a \in Agents :
        /\ chatCall[a].pc = "done"
        /\ chatCall[a].outcome = "ok"
        /\ chatCall[a].executed.sent
        /\ Truthy(dbSchema[a])
        /\ Truthy(schemaCache)
        /\ schemaCache # dbSchema[a]
        /\ prisma[a] # NoClient
        /\ defaultSystemPrompt[a] = Constructor(ConstructorOptions)

\* C22: while the text of a successful forced refresh of the agent's
\* database stands in the cache, a chat call that starts on the connected
\* agent builds its classification prompt from that text, and then its SQL
\* prompt too.
C22_ChatEmbedsRefreshedText ==
    [][\A a \in Agents :
          (/\ RefreshedCacheStands
           /\ prisma[a] # NoClient
           /\ dbSchema[a] \in RenderingsOf(prisma[a])
           /\ schemaCall.text \in RenderingsOf(prisma[a])) =>
              /\ (ChatStarts(a) /\ chatCall'[a].pc = "classifying") =>
                    chatCall'[a].classificationPrompt.schema = schemaCall.text
              /\ (/\ chatCall[a].pc = "classifying"
                  /\ chatCall[a].classificationPrompt.schema = schemaCall.text
                  /\ chatCall'[a].pc = "generating") =>
                    chatCall'[a].sqlGenerationPrompt.schema = schemaCall.text]_vars

\* C23: when a connect call is rejected for its parameters on an agent
\* whose last connect succeeded, the agent's provider, client and schema
\* text stay those of that successful connect.
C23_FailedConnectKeepsConnection ==
    [][\A a \in Agents :
          (/\ connectCall[a].pc = "done"
           /\ connectCall[a].outcome = "ok"
           /\ connectCall'[a].pc = "done"
           /\ connectCall'[a].err = "parameters") =>
              /\ provider'[a] = provider[a]
              /\ prisma'[a] = prisma[a]
              /\ dbSchema'[a] = dbSchema[a]]_vars

\* the dialect the SQL prompt names for a schema text rendered in the quoting
\* style of one provider
DialectOf(text) == IF text.quote = "mysql" THEN "MySQL" ELSE "PostgreSQL"

\* C24: when a chat builds its SQL generation prompt, the prompt embeds the
\* schema text its classification prompt embedded, and names the dialect of
\* the provider that text was rendered for, whatever connect calls ran on
\* the agent in between.
C24_OnePromptPairOneSchema ==
    [][\A a \in Agents :
          (/\ chatCall[a].pc = "classifying"
           /\ chatCall'[a].pc = "generating") =>
              /\ chatCall'[a].sqlGenerationPrompt.schema =
                     chatCall[a].classificationPrompt.schema
              /\ chatCall'[a].sqlGenerationPrompt.dialect =
                     DialectOf(chatCall[a].classificationPrompt.schema)]_vars

(***************************************************************************)
(* The agent under a host that starts chats only while the agent's active  *)
(* connection is the one to database d1                                    *)
(***************************************************************************)
ChatOn(a, d, userPrompt, optionsSystemPrompt) ==
    /\ prisma[a] = d
    /\ Chat(a, userPrompt, optionsSystemPrompt)

NextChatOnD1 ==
    \/ \E a \in Agents, prov \in Providers, c \in Connections :
           Connect(a, prov, c)
    \/ \E a \in Agents, ok \in BOOLEAN : ConnectResolved(a, ok)
    \/ \E a \in Agents, ok \in BOOLEAN : ConnectIntrospected(a, ok)
    \/ \E d \in DBs, f \in BOOLEAN : GetDatabaseSchema(d, DBType(d), f)
    \/ \E ok \in BOOLEAN : SchemaIntrospected(ok)
    \/ \E d \in DBs : AlterDatabase(d)
    \/ \E a \in Agents, u \in Utterances, o \in Personas \cup {Absent} :
           ChatOn(a, "d1", u, o)
    \/ \E a \in Agents, ok \in BOOLEAN, r \in ClassifierResponses :
           ClassifierResolved(a, ok, r)
    \/ \E a \in Agents, ok \in BOOLEAN, r \in SQLResponses :
           SQLResolved(a, ok, r)
    \/ \E a \in Agents, ok \in BOOLEAN : QueryResolved(a, ok)
    \/ \E a \in Agents, ok \in BOOLEAN : AnswerResolved(a, ok)

SpecChatOnD1 == Init /\ [][NextChatOnD1]_vars

\* C25: every chat of this process starts while the agent's active
\* connection is the one to d1, so the statement a chat hands to the
\* executor is sent over the connection to d1, whatever connect calls ran
\* on the agent while the chat was in flight.
C25_ExecutedOnStartingConnection ==
    [][\A a \in Agents :
          (/\ chatCall[a].pc = "generating"
           /\ chatCall'[a].pc = "executing") =>
              chatCall'[a].executed.db = "d1"]_vars

\* a parsed response whose query key is absent, not a string, empty, only
\* whitespace or only terminators
NoStatementIn(parsed) ==
    \/ parsed.kind # "obj"
    \/ parsed.qtype # "string"
    \/ \A i \in 1..Len(parsed.query) : IsSpace(parsed.query[i])
    \/ \A i \in 1..Len(parsed.query) : parsed.query[i] = ";"

\* C26: a statement getSQLFromLLM returns is non-empty text, and a response
\* with no statement under its query key makes it fail.
C26_ReturnedStatementNonEmpty ==
    sqlResult # NotRun =>
        /\ sqlResult.ok => sqlResult.value # <<>>
        /\ NoStatementIn(sqlInput) => ~sqlResult.ok

====
